---- MODULE Spec2Model ----
(***************************************************************************)
(* MyBlog: a small blogging platform that exists twice in the repository.  *)
(*                                                                         *)
(*   "sql"  src/app.js + src/routes.js + db.js (src/unnamed/part_000) +    *)
(*          src/email.js: express-session, SQLite tables users / posts /   *)
(*          comments / subscribers, e-mail through Resend with an SMTP     *)
(*          fallback.                                                      *)
(*   "doc"  src/src/server.js: an unsigned admin cookie, one markdown file *)
(*          per post plus LokiJS collections posts / comments.             *)
(*                                                                         *)
(* A run of the model is a run of one of the two programs (impl).  Text    *)
(* that the code converts (trim, toLowerCase, slugify) is a sequence of    *)
(* one-character strings, so that the conversions are computed.            *)
(***************************************************************************)
EXTENDS Integers, Sequences, FiniteSets, TLC

VARIABLES
    impl,           \* which program runs: "sql" or "doc"
    env,            \* process.env as read by src/email.js (TRUE = set and non-empty)
    session,        \* sql: req.session.userId of each client's session (0 = none)
    seq,            \* sql: sqlite_sequence, the AUTOINCREMENT counters
    posts,          \* sql: table posts, a set of rows
    comments,       \* sql: table comments, a set of rows
    subscribers,    \* sql: table subscribers, rows in rowid order
    jobs,           \* sql: sendMail promises in flight, grouped by the handler that made them
    batchLog,       \* sql: the counts of the last "Notification results" / "Results" line
    cookie,         \* doc: the admin cookie the server last set or cleared at each client
    postFiles,      \* doc: POSTS_DIR, slug -> the .md file's title and body
    postsCollection,    \* doc: Loki collection posts, documents in insertion order
    commentsCollection, \* doc: Loki collection comments, documents in insertion order
    last            \* the response written last, with the request it answers

vars == <<impl, env, session, seq, posts, comments, subscribers, jobs,
          batchLog, cookie, postFiles, postsCollection, commentsCollection, last>>

sqlVars == <<session, seq, posts, comments, subscribers, jobs, batchLog>>
docVars == <<cookie, postFiles, postsCollection, commentsCollection>>

---------------------------------------------------------------------------
(* Bounds of the model *)

MaxSubscriberId == 2    \* INSERTs into subscribers that succeed
MaxPostId == 2          \* INSERTs into posts that succeed
MaxCommentId == 1       \* INSERTs into comments that succeed
MaxJobs == 1            \* handlers whose sendMail promises are in flight at once
MaxDocPosts == 2        \* documents in the Loki posts collection
MaxDocComments == 1     \* documents in the Loki comments collection

Clients == {"c1", "c2"}
Nobody == "nobody"

\* request fields, as sequences of characters
RawEmails == {<<>>, <<" ">>, <<"a">>, <<"A">>, <<" ", "a">>, <<"b">>}
Titles == {<<>>, <<"a">>, <<"A", "!">>, <<"b">>}
Contents == {<<>>, <<"x">>}
Uploads == {<<>>, <<"img">>}
Texts == {<<>>, <<" ">>, <<"m">>}

---------------------------------------------------------------------------
(* String.prototype helpers *)

Lower(c) == CASE c = "A" -> "a" [] c = "B" -> "b" [] OTHER -> c

toLowerCase(s) == [i \in 1..Len(s) |-> Lower(s[i])]

IsSpace(c) == c \in {" ", "\n"}

RECURSIVE trimStart(_)
trimStart(s) == IF s # <<>> /\ IsSpace(Head(s)) THEN trimStart(Tail(s)) ELSE s

RECURSIVE trimEnd(_)
trimEnd(s) ==
    IF s # <<>> /\ IsSpace(s[Len(s)]) THEN trimEnd(SubSeq(s, 1, Len(s) - 1)) ELSE s

trim(s) == trimEnd(trimStart(s))

---------------------------------------------------------------------------
(* src/routes.js: slugify *)

IsSlugChar(c) == c \in {"a", "b", "x", "m", " ", "\n", "-"}   \* /[a-z0-9\s-]/

IsSep(c) == IsSpace(c) \/ c = "-"                             \* /[\s-]/

RECURSIVE dropSep(_)
dropSep(s) == IF s # <<>> /\ IsSep(Head(s)) THEN dropSep(Tail(s)) ELSE s

RECURSIVE collapseSep(_)
collapseSep(s) ==
    IF s = <<>> THEN <<>>
    ELSE IF IsSep(Head(s)) THEN <<"-">> \o collapseSep(dropSep(s))
    ELSE <<Head(s)>> \o collapseSep(Tail(s))

RECURSIVE stripHyphens(_)
stripHyphens(s) ==
    IF s # <<>> /\ Head(s) = "-" THEN stripHyphens(Tail(s))
    ELSE IF s # <<>> /\ s[Len(s)] = "-" THEN stripHyphens(SubSeq(s, 1, Len(s) - 1))
    ELSE s

slugify(text) ==
    stripHyphens(collapseSep(SelectSeq(trim(toLowerCase(text)), IsSlugChar)))

---------------------------------------------------------------------------
(* src/routes.js: renderContentToHtml *)

\* The rendered HTML is a sequence too: the fixed pieces of the template
\* literals are one element each, text taken from the content is one element
\* per character.
BrTag == "<br/>"
ImgOpen == "<div class=\"post-image\"><img src=\""
ImgClose == "\" alt=\"image\" loading=\"lazy\"/></div>"
AOpen == "<a href=\""
AMid == "\" target=\"_blank\" rel=\"noopener noreferrer\">"
AClose == "</a>"
POpen == "<p>"
PClose == "</p>"

\* s.replace(/c/g, r) for a one-character pattern c
RECURSIVE replaceAll(_, _, _)
replaceAll(s, c, r) ==
    IF s = <<>> THEN <<>>
    ELSE (IF Head(s) = c THEN r ELSE <<Head(s)>>) \o replaceAll(Tail(s), c, r)

escapeHtml(s) ==
    replaceAll(replaceAll(replaceAll(s, "&", <<"&", "a", "m", "p", ";">>),
                          "<", <<"&", "l", "t", ";">>),
               ">", <<"&", "g", "t", ";">>)

\* the i flag, on the letters the patterns hold
foldCase(c) ==
    CASE c = "H" -> "h" [] c = "T" -> "t" [] c = "P" -> "p" [] c = "S" -> "s"
      [] c = "N" -> "n" [] c = "G" -> "g" [] c = "J" -> "j" [] c = "E" -> "e"
      [] c = "I" -> "i" [] c = "F" -> "f" [] c = "W" -> "w" [] c = "B" -> "b"
      [] OTHER -> c

\* pat matches s at position i; fold says whether the i flag is set
matchesAt(s, i, pat, fold) ==
    /\ i >= 1
    /\ i + Len(pat) - 1 <= Len(s)
    /\ \A k \in 1..Len(pat) :
          (IF fold THEN foldCase(s[i + k - 1]) ELSE s[i + k - 1]) = pat[k]

\* the length of the match of /https?:\/\// at position i, 0 for none
schemeAt(s, i, fold) ==
    IF matchesAt(s, i, <<"h", "t", "t", "p", ":", "/", "/">>, fold) THEN 7
    ELSE IF matchesAt(s, i, <<"h", "t", "t", "p", "s", ":", "/", "/">>, fold) THEN 8
    ELSE 0

\* the last position of the run of [^\s] that starts at i (i - 1 for none)
RECURSIVE runEnd(_, _)
runEnd(s, i) ==
    IF i <= Len(s) /\ ~IsSpace(s[i]) THEN runEnd(s, i + 1) ELSE i - 1

\* the last position of the match of urlRegex at position i, 0 for none
urlEndAt(s, i) ==
    LET n == schemeAt(s, i, FALSE) IN
    IF n > 0 /\ runEnd(s, i + n) >= i + n THEN runEnd(s, i + n) ELSE 0

\* trimmed.match(urlRegex)?.[0]: the leftmost match, <<>> for none
firstUrl(s) ==
    LET starts == {i \in 1..Len(s) : urlEndAt(s, i) > 0} IN
    IF starts = {} THEN <<>>
    ELSE LET i == CHOOSE k \in starts : \A m \in starts : k <= m
         IN  SubSeq(s, i, urlEndAt(s, i))

ImageExts == {<<"p", "n", "g">>, <<"j", "p", "g">>, <<"j", "p", "e", "g">>,
              <<"g", "i", "f">>, <<"w", "e", "b", "p">>}

\* imageRegex.test(s): somewhere in s, the scheme, one or more [^\s], a dot
\* and an extension
imageRegex(s) ==
    \E i \in 1..Len(s), k \in 1..Len(s), x \in ImageExts :
       /\ schemeAt(s, i, TRUE) > 0
       /\ k > i + schemeAt(s, i, TRUE)
       /\ runEnd(s, i + schemeAt(s, i, TRUE)) >= k - 1
       /\ matchesAt(s, k, <<".">> \o x, TRUE)

\* /(\.png|\.jpg|\.jpeg|\.gif|\.webp)(\?|#|$)/i.test(url)
isImg(url) ==
    \E k \in 1..Len(url), x \in ImageExts :
       /\ matchesAt(url, k, <<".">> \o x, TRUE)
       /\ \/ k + Len(x) = Len(url)
          \/ k + Len(x) < Len(url) /\ url[k + Len(x) + 1] \in {"?", "#"}

imgElement(src) == <<ImgOpen>> \o escapeHtml(src) \o <<ImgClose>>

\* the replacement function of escaped.replace(urlRegex, ...)
replacement(url) ==
    IF isImg(url) THEN imgElement(url)
    ELSE <<AOpen>> \o escapeHtml(url) \o <<AMid>> \o escapeHtml(url) \o <<AClose>>

\* escaped.replace(urlRegex, ...): every match, left to right
RECURSIVE linkify(_)
linkify(s) ==
    IF s = <<>> THEN <<>>
    ELSE IF urlEndAt(s, 1) > 0
    THEN replacement(SubSeq(s, 1, urlEndAt(s, 1)))
            \o linkify(SubSeq(s, urlEndAt(s, 1) + 1, Len(s)))
    ELSE <<Head(s)>> \o linkify(Tail(s))

\* the function mapped over the lines
renderLine(line) ==
    LET trimmed == trim(line) IN
    IF trimmed = <<>> THEN <<BrTag>>
    ELSE IF imageRegex(trimmed) /\ firstUrl(trimmed) = trimmed THEN imgElement(trimmed)
    ELSE <<POpen>> \o linkify(escapeHtml(line)) \o <<PClose>>

\* content.split(/\r?\n/)
RECURSIVE splitLines(_, _)
splitLines(s, line) ==
    IF s = <<>> THEN <<line>>
    ELSE IF Head(s) = "\n"
    THEN <<IF line # <<>> /\ line[Len(line)] = "\r"
           THEN SubSeq(line, 1, Len(line) - 1) ELSE line>>
            \o splitLines(Tail(s), <<>>)
    ELSE splitLines(Tail(s), Append(line, Head(s)))

\* htmlLines.join('\n')
RECURSIVE joinLines(_)
joinLines(lines) ==
    IF lines = <<>> THEN <<>>
    ELSE Head(lines) \o (IF Len(lines) > 1 THEN <<"\n">> ELSE <<>>) \o joinLines(Tail(lines))

renderContentToHtml(content) ==
    IF content = <<>> THEN <<>>
    ELSE LET lines == splitLines(content, <<>>)
         IN  joinLines([i \in 1..Len(lines) |-> renderLine(lines[i])])

---------------------------------------------------------------------------
(* src/email.js *)

Envs == [RESEND_API_KEY : BOOLEAN, SMTP_HOST : BOOLEAN,
         SMTP_USER : BOOLEAN, SMTP_PASS : BOOLEAN]

\* what the awaited provider call can do
ResendOutcomes == {"ok", "notok", "throw"}   \* res.ok, !res.ok, fetch or body read throws
SmtpOutcomes == {"ok", "throw"}

\* createTransport that asks for the host only
createTransportHostOnly(e) ==
    IF ~e.SMTP_HOST THEN "null" ELSE "transport"

createTransport(e) ==
    IF ~e.SMTP_HOST \/ ~e.SMTP_USER \/ ~e.SMTP_PASS THEN "null" ELSE "transport"

\* A sendMail call: the providers it has called so far, how each call that has
\* come back ended ("ok", or "failed" when the catch block took it), and the
\* value its promise resolved to.
NewCall(to) == [to |-> to, attempts |-> <<>>, outcomes |-> <<>>, value |-> "pending"]

Awaiting(s) ==
    IF s.value = "pending" /\ Len(s.outcomes) < Len(s.attempts)
    THEN s.attempts[Len(s.attempts)] ELSE "nothing"

\* lines 62-71 up to the await: no transport -> false, else the SMTP call is made
smtpStage(e, s) ==
    IF createTransport(e) = "null" THEN [s EXCEPT !.value = "false"]
    ELSE [s EXCEPT !.attempts = Append(@, "smtp")]

\* the call up to its first await
sendMail(e, to) ==
    IF e.RESEND_API_KEY
    THEN [NewCall(to) EXCEPT !.attempts = <<"resend">>]
    ELSE smtpStage(e, NewCall(to))

\* a resume that calls the SMTP relay a second time after its first failure
resumeRetrying(e, s, o) ==
    LET t == [s EXCEPT !.outcomes = Append(@, IF o = "ok" THEN "ok" ELSE "failed")] IN
    IF Awaiting(s) = "resend"
    THEN IF o = "ok" THEN [t EXCEPT !.value = "true"] ELSE smtpStage(e, t)
    ELSE IF o = "ok" THEN [t EXCEPT !.value = "true"]
    ELSE IF Len(s.attempts) < 3 THEN [t EXCEPT !.attempts = Append(@, "smtp")]
    ELSE [t EXCEPT !.value = "false"]

\* the call from the await it is suspended at, when the provider answers o
resume(e, s, o) ==
    LET t == [s EXCEPT !.outcomes = Append(@, IF o = "ok" THEN "ok" ELSE "failed")] IN
    IF Awaiting(s) = "resend"
    THEN IF o = "ok" THEN [t EXCEPT !.value = "true"] ELSE smtpStage(e, t)
    ELSE [t EXCEPT !.value = IF o = "ok" THEN "true" ELSE "false"]

OutcomesOf(s) == IF Awaiting(s) = "resend" THEN ResendOutcomes ELSE SmtpOutcomes

\* the status Promise.allSettled reports for the call's promise: sendMail
\* returns on every path and catches every provider error
settledStatus(s) == IF s.value = "pending" THEN "pending" ELSE "fulfilled"

---------------------------------------------------------------------------
(* db.js (src/unnamed/part_000) *)

\* getDb opens the connection and runs no PRAGMA: SQLite leaves foreign-key
\* enforcement off on a connection until PRAGMA foreign_keys = ON
foreign_keys == FALSE

bcryptHash(password) == <<"bcrypt", password>>

bcryptCompare(password, hash) == hash = bcryptHash(password)

\* initDb seeds one administrator
users == {[id |-> 1, email |-> "admin@example.com",
           password_hash |-> bcryptHash("admin123")]}

LoginEmails == {"admin@example.com", "Admin@Example.com", "eve@example.com"}
Passwords == {"admin123", "guess"}

\* SELECT email FROM subscribers
selectEmails(rows) == [i \in 1..Len(rows) |-> rows[i].email]

\* the UNIQUE(email) check of INSERT INTO subscribers
emailTaken(rows, email) == \E i \in 1..Len(rows) : rows[i].email = email

\* the UNIQUE(slug) check of INSERT INTO posts / UPDATE posts ... WHERE id
slugTaken(rows, slug, exceptId) == \E p \in rows : p.slug = slug /\ p.id # exceptId

\* DELETE FROM subscribers WHERE id = ?
deleteSubscriberRow(rows, id) == SelectSeq(rows, LAMBDA r : r.id # id)

\* DELETE FROM posts WHERE id = ?, with the cascade the comments table declares
deletePostRow(rows, id) == {p \in rows : p.id # id}

cascadeComments(rows, id) ==
    IF foreign_keys THEN {k \in rows : k.post_id # id} ELSE rows

---------------------------------------------------------------------------
(* src/routes.js: state of the handlers *)

NoJob == [kind |-> "none", awaitedBy |-> Nobody, calls |-> <<>>]

FreeJobs == {j \in 1..MaxJobs : jobs[j].kind = "none"}

FreeJob == CHOOSE j \in FreeJobs : \A k \in FreeJobs : j <= k

\* subscribers.map(s => sendMail(...)): every call runs to its first await
mapSendMail(e, rcpts) == [i \in 1..Len(rcpts) |-> sendMail(e, rcpts[i])]

\* a join that resolves with the first call that settles
firstSettled(calls) == \E i \in 1..Len(calls) : settledStatus(calls[i]) # "pending"

\* Promise.allSettled has resolved
allSettled(calls) == \A i \in 1..Len(calls) : settledStatus(calls[i]) # "pending"

\* results.filter(r => r.status === 'fulfilled').length and the rest
countResults(calls) ==
    LET fulfilled == Cardinality({i \in 1..Len(calls) : settledStatus(calls[i]) = "fulfilled"})
    IN  [total |-> Len(calls), sent |-> fulfilled, failed |-> Len(calls) - fulfilled]

NoBatchLog == [total |-> -1, sent |-> 0, failed |-> 0]

Resp(op, c, status, arg, id) ==
    [op |-> op, client |-> c, status |-> status, arg |-> arg, id |-> id, dbError |-> FALSE]

requireAuth(c) == session[c] # 0

\* the URLs of the uploaded files, joined by "\n" after a blank line
RECURSIVE joinUrls(_)
joinUrls(files) ==
    IF files = <<>> THEN <<>>
    ELSE <<"/uploads/", Head(files)>>
         \o (IF Len(files) > 1 THEN <<"\n">> ELSE <<>>) \o joinUrls(Tail(files))

finalContent(content, files) ==
    IF Len(files) > 0 THEN content \o <<"\n", "\n">> \o joinUrls(files) ELSE content

---------------------------------------------------------------------------
(* src/routes.js: authentication *)

\* POST /login
Login(c, email, password) ==
    /\ impl = "sql"
    /\ LET found == {u \in users : u.email = email} IN
       IF found = {} \/ \A u \in found : ~bcryptCompare(password, u.password_hash)
       THEN /\ last' = Resp("login", c, "render login: Invalid credentials", <<>>, 0)
            /\ UNCHANGED session
       ELSE /\ session' = [session EXCEPT ![c] = (CHOOSE u \in found : TRUE).id]
            /\ last' = Resp("login", c, "redirect /admin", <<>>, 0)
    /\ UNCHANGED <<impl, env, seq, posts, comments, subscribers, jobs, batchLog>>
    /\ UNCHANGED docVars

\* POST /logout
Logout(c) ==
    /\ impl = "sql"
    /\ session' = [session EXCEPT ![c] = 0]
    /\ last' = Resp("logout", c, "redirect /", <<>>, 0)
    /\ UNCHANGED <<impl, env, seq, posts, comments, subscribers, jobs, batchLog>>
    /\ UNCHANGED docVars

---------------------------------------------------------------------------
(* src/routes.js: subscribers and mail *)

\* (req.body.email || '').trim().toLowerCase(), with the case folding left out
normalizeEmailKeepingCase(rawEmail) == trim(rawEmail)

\* POST /subscribe that answers with an error when the welcome mail fails
SubscribeReportingMail(c, rawEmail) ==
    /\ impl = "sql"
    /\ LET email == toLowerCase(trim(rawEmail)) IN
       IF email = <<>>
       THEN /\ last' = Resp("subscribe", c, "redirect /", <<>>, 0)
            /\ UNCHANGED <<seq, subscribers, jobs>>
       ELSE IF emailTaken(subscribers, email)
       THEN /\ last' = Resp("subscribe", c, "redirect /?subscribed=0", rawEmail, 0)
            /\ UNCHANGED <<seq, subscribers, jobs>>
       ELSE LET call == sendMail(env, email) IN
            /\ seq.subscribers < MaxSubscriberId
            /\ FreeJobs # {}
            /\ seq' = [seq EXCEPT !.subscribers = @ + 1]
            /\ subscribers' = Append(subscribers,
                                     [id |-> seq.subscribers + 1, email |-> email])
            /\ jobs' = [jobs EXCEPT ![FreeJob] =
                          [kind |-> "welcome", awaitedBy |-> Nobody, calls |-> <<call>>]]
            /\ last' = Resp("subscribe", c,
                            IF call.value = "false" THEN "500 mail failed"
                            ELSE "redirect /?subscribed=1", rawEmail, 0)
    /\ UNCHANGED <<impl, env, session, posts, comments, batchLog>>
    /\ UNCHANGED docVars

\* (req.body.email || '').trim().toLowerCase()
normalizeEmail(rawEmail) == toLowerCase(trim(rawEmail))

\* POST /subscribe
Subscribe(c, rawEmail) ==
    /\ impl = "sql"
    /\ LET email == normalizeEmail(rawEmail) IN
       IF email = <<>>
       THEN /\ last' = Resp("subscribe", c, "redirect /", <<>>, 0)
            /\ UNCHANGED <<seq, subscribers, jobs>>
       ELSE IF emailTaken(subscribers, email)
       THEN /\ last' = Resp("subscribe", c, "redirect /?subscribed=0", rawEmail, 0)
            /\ UNCHANGED <<seq, subscribers, jobs>>
       ELSE LET call == sendMail(env, email) IN
            /\ seq.subscribers < MaxSubscriberId
            /\ FreeJobs # {}
            /\ seq' = [seq EXCEPT !.subscribers = @ + 1]
            /\ subscribers' = Append(subscribers,
                                     [id |-> seq.subscribers + 1, email |-> email])
            \* sendMail(...).catch(() => {}): the handler does not wait for it
            /\ jobs' = [jobs EXCEPT ![FreeJob] =
                          [kind |-> "welcome", awaitedBy |-> Nobody, calls |-> <<call>>]]
            /\ last' = Resp("subscribe", c, "redirect /?subscribed=1", rawEmail, 0)
    /\ UNCHANGED <<impl, env, session, posts, comments, batchLog>>
    /\ UNCHANGED docVars

\* DELETE /admin/subscribers/:id
DeleteSubscriber(c, id) ==
    /\ impl = "sql"
    /\ IF ~requireAuth(c)
       THEN /\ last' = Resp("deleteSubscriber", c, "redirect /login", <<>>, 0)
            /\ UNCHANGED subscribers
       ELSE /\ subscribers' = deleteSubscriberRow(subscribers, id)
            /\ last' = Resp("deleteSubscriber", c, "redirect /admin", <<>>, 0)
    /\ UNCHANGED <<impl, env, session, seq, posts, comments, jobs, batchLog>>
    /\ UNCHANGED docVars

\* POST /admin/posts
CreatePost(c, rawTitle, rawContent, files, lookupFails) ==
    /\ impl = "sql"
    /\ LET title == trim(rawTitle)
           content == trim(rawContent)
           slug == slugify(title)
           row == [id |-> seq.posts + 1, title |-> title, slug |-> slug,
                   content |-> finalContent(content, files)]
           calls == mapSendMail(env, selectEmails(subscribers))
       IN
       IF ~requireAuth(c)
       THEN /\ last' = Resp("createPost", c, "redirect /login", <<>>, 0)
            /\ UNCHANGED <<seq, posts, jobs>>
       ELSE IF title = <<>> \/ content = <<>>
       THEN /\ last' = Resp("createPost", c, "render new: Title and content required",
                            <<>>, 0)
            /\ UNCHANGED <<seq, posts, jobs>>
       ELSE IF slugTaken(posts, slug, 0)
       THEN \* the INSERT rejects, catch
            /\ last' = Resp("createPost", c, "render new: Title already used", rawTitle, 0)
            /\ UNCHANGED <<seq, posts, jobs>>
       ELSE /\ seq.posts < MaxPostId
            /\ seq' = [seq EXCEPT !.posts = @ + 1]
            /\ posts' = posts \cup {row}
            /\ IF lookupFails
               THEN \* SELECT email FROM subscribers rejects, same catch
                    /\ last' = [Resp("createPost", c, "render new: Title already used",
                                     rawTitle, row.id) EXCEPT !.dbError = TRUE]
                    /\ UNCHANGED jobs
               ELSE \* the batch is not awaited: the redirect follows at once
                    /\ FreeJobs # {}
                    /\ jobs' = [jobs EXCEPT ![FreeJob] =
                                  [kind |-> "post", awaitedBy |-> Nobody, calls |-> calls]]
                            /\ last' = Resp("createPost", c, "redirect /admin", rawTitle, row.id)
    /\ UNCHANGED <<impl, env, session, comments, subscribers, batchLog>>
    /\ UNCHANGED docVars

\* the .then of the notification batch of POST /admin/posts
PostNotified(j) ==
    /\ impl = "sql"
    /\ jobs[j].kind = "post"
    /\ allSettled(jobs[j].calls)
    /\ batchLog' = countResults(jobs[j].calls)
    /\ jobs' = [jobs EXCEPT ![j] = NoJob]
    /\ UNCHANGED <<impl, env, session, seq, posts, comments, subscribers, last>>
    /\ UNCHANGED docVars

\* the promise of the welcome mail settles; .catch(() => {}) has nothing to do
WelcomeSettled(j) ==
    /\ impl = "sql"
    /\ jobs[j].kind = "welcome"
    /\ allSettled(jobs[j].calls)
    /\ jobs' = [jobs EXCEPT ![j] = NoJob]
    /\ UNCHANGED <<impl, env, session, seq, posts, comments, subscribers, batchLog, last>>
    /\ UNCHANGED docVars

\* POST /admin/broadcast up to its await
Broadcast(c, rawSubject, rawMessage) ==
    /\ impl = "sql"
    /\ LET subject == trim(rawSubject)
           message == trim(rawMessage)
           calls == mapSendMail(env, selectEmails(subscribers))
       IN
       IF ~requireAuth(c)
       THEN /\ last' = Resp("broadcast", c, "redirect /login", <<>>, 0)
            /\ UNCHANGED jobs
       ELSE IF subject = <<>> \/ message = <<>>
       THEN /\ last' = Resp("broadcast", c, "render broadcast: Subject and message required",
                            <<>>, 0)
            /\ UNCHANGED jobs
       ELSE /\ FreeJobs # {}
            /\ jobs' = [jobs EXCEPT ![FreeJob] =
                          [kind |-> "broadcast", awaitedBy |-> c, calls |-> calls]]
            /\ UNCHANGED last
    /\ UNCHANGED <<impl, env, session, seq, posts, comments, subscribers, batchLog>>
    /\ UNCHANGED docVars

\* POST /admin/broadcast from its await on
BroadcastResume(j) ==
    /\ impl = "sql"
    /\ jobs[j].kind = "broadcast"
    /\ allSettled(jobs[j].calls)
    /\ batchLog' = countResults(jobs[j].calls)
    /\ last' = Resp("broadcast", jobs[j].awaitedBy, "render broadcast: sent", <<>>, 0)
    /\ jobs' = [jobs EXCEPT ![j] = NoJob]
    /\ UNCHANGED <<impl, env, session, seq, posts, comments, subscribers>>
    /\ UNCHANGED docVars

\* GET /admin/email-test up to its await
EmailTest(c, rawTo) ==
    /\ impl = "sql"
    /\ LET to == trim(rawTo)
           call == sendMail(env, to)
       IN
       IF ~requireAuth(c)
       THEN /\ last' = Resp("emailTest", c, "redirect /login", <<>>, 0)
            /\ UNCHANGED jobs
       ELSE IF to = <<>>
       THEN /\ last' = Resp("emailTest", c, "400 Provide ?to=", <<>>, 0)
            /\ UNCHANGED jobs
       ELSE /\ FreeJobs # {}
            /\ jobs' = [jobs EXCEPT ![FreeJob] =
                          [kind |-> "test", awaitedBy |-> c, calls |-> <<call>>]]
            /\ UNCHANGED last
    /\ UNCHANGED <<impl, env, session, seq, posts, comments, subscribers, batchLog>>
    /\ UNCHANGED docVars

\* GET /admin/email-test from its await on
EmailTestResume(j) ==
    /\ impl = "sql"
    /\ jobs[j].kind = "test"
    /\ allSettled(jobs[j].calls)
    /\ last' = Resp("emailTest", jobs[j].awaitedBy,
                    IF jobs[j].calls[1].value = "true" THEN "send Sent" ELSE "send Failed",
                    <<>>, 0)
    /\ jobs' = [jobs EXCEPT ![j] = NoJob]
    /\ UNCHANGED <<impl, env, session, seq, posts, comments, subscribers, batchLog>>
    /\ UNCHANGED docVars

\* a provider answers the call that sendMail call i of job j is awaiting
ProviderAnswers(j, i, o) ==
    /\ impl = "sql"
    /\ jobs[j].kind # "none"
    /\ i \in 1..Len(jobs[j].calls)
    /\ Awaiting(jobs[j].calls[i]) # "nothing"
    /\ o \in OutcomesOf(jobs[j].calls[i])
    /\ jobs' = [jobs EXCEPT ![j].calls[i] = resume(env, @, o)]
    /\ UNCHANGED <<impl, env, session, seq, posts, comments, subscribers, batchLog, last>>
    /\ UNCHANGED docVars

---------------------------------------------------------------------------
(* src/routes.js: posts and comments *)

SlugInputs == {<<"a">>, <<"b">>, <<"z">>}
Authors == {<<>>, <<"n">>}

\* PUT /admin/posts/:id
UpdatePost(c, id, rawTitle, rawContent, files) ==
    /\ impl = "sql"
    /\ LET title == trim(rawTitle)
           content == trim(rawContent)
           slug == slugify(title)
       IN
       IF ~requireAuth(c)
       THEN /\ last' = Resp("updatePost", c, "redirect /login", <<>>, id)
            /\ UNCHANGED posts
       ELSE IF title = <<>> \/ content = <<>>
       THEN /\ last' = Resp("updatePost", c, "render edit: Title and content required",
                            <<>>, id)
            /\ UNCHANGED posts
       ELSE IF (\E p \in posts : p.id = id) /\ slugTaken(posts, slug, id)
       THEN \* the UPDATE rejects, catch
            /\ last' = Resp("updatePost", c, "render edit: Title already used", rawTitle, id)
            /\ UNCHANGED posts
       ELSE /\ posts' = {IF p.id = id
                         THEN [p EXCEPT !.title = title, !.slug = slug,
                                        !.content = finalContent(content, files)]
                         ELSE p : p \in posts}
            /\ last' = Resp("updatePost", c, "redirect /admin", rawTitle, id)
    /\ UNCHANGED <<impl, env, session, seq, comments, subscribers, jobs, batchLog>>
    /\ UNCHANGED docVars

\* DELETE /admin/posts/:id
DeletePost(c, id) ==
    /\ impl = "sql"
    /\ IF ~requireAuth(c)
       THEN /\ last' = Resp("deletePost", c, "redirect /login", <<>>, id)
            /\ UNCHANGED <<posts, comments>>
       ELSE /\ posts' = deletePostRow(posts, id)
            /\ comments' = IF \E p \in posts : p.id = id
                           THEN cascadeComments(comments, id) ELSE comments
            /\ last' = Resp("deletePost", c, "redirect /admin", <<>>, id)
    /\ UNCHANGED <<impl, env, session, seq, subscribers, jobs, batchLog>>
    /\ UNCHANGED docVars

\* POST /post/:slug/comments
AddComment(c, slug, rawAuthor, rawBody) ==
    /\ impl = "sql"
    /\ LET found == {p \in posts : p.slug = slug}
           author == IF trim(rawAuthor) # <<>> THEN trim(rawAuthor) ELSE <<"Anonymous">>
           body == trim(rawBody)
       IN
       IF found = {}
       THEN /\ last' = Resp("addComment", c, "404 Not found", slug, 0)
            /\ UNCHANGED <<seq, comments>>
       ELSE IF body = <<>>
       THEN /\ last' = Resp("addComment", c, "redirect /post/:slug", slug, 0)
            /\ UNCHANGED <<seq, comments>>
       ELSE /\ seq.comments < MaxCommentId
            /\ seq' = [seq EXCEPT !.comments = @ + 1]
            /\ comments' = comments \cup
                  {[id |-> seq.comments + 1, post_id |-> (CHOOSE p \in found : TRUE).id,
                    author |-> author, body |-> body]}
            /\ last' = Resp("addComment", c, "redirect /post/:slug", slug, 0)
    /\ UNCHANGED <<impl, env, session, posts, subscribers, jobs, batchLog>>
    /\ UNCHANGED docVars

\* GET /post/:slug
ViewPost(c, slug) ==
    /\ impl = "sql"
    /\ LET found == {p \in posts : p.slug = slug} IN
       IF found = {}
       THEN last' = Resp("viewPost", c, "404 Not found", slug, 0)
       ELSE LET post == CHOOSE p \in found : TRUE IN
            last' = [op |-> "viewPost", client |-> c, status |-> "render post",
                     arg |-> slug, id |-> post.id, dbError |-> FALSE,
                     post |-> post,
                     comments |-> {k \in comments : k.post_id = post.id},
                     contentHtml |-> renderContentToHtml(post.content)]
    /\ UNCHANGED <<impl, env, session, seq, posts, comments, subscribers, jobs, batchLog>>
    /\ UNCHANGED docVars

---------------------------------------------------------------------------
(* src/src/server.js *)

ADMIN_EMAIL == <<"a", "@", "b">>        \* process.env.ADMIN_EMAIL || the default
ADMIN_PASSWORD == "1926522431"
DocLoginEmails == {<<"a", "@", "b">>, <<"A", "@", "b">>, <<"x", "@", "b">>}
DocPasswords == {"1926522431", "guess"}

DocClients == {"c1"}
CookieValues == {"none", "1"}           \* the admin cookie a request can carry
DocTitles == {<<>>, <<"a">>, <<"A", "!">>, <<"b">>}
DocBodies == {<<>>, <<"x">>, <<"y">>}
DocNames == {<<>>, <<"n">>}
Timestamps == {"t1"}                    \* Date.now()
PublishRoutes == {"/publish", "/api/admin/publish"}
DeleteRoutes == {"/admin/posts/:slug/delete", "/api/admin/posts/:slug"}

IsAlnumOrSpace(c) == c \in {"a", "b", "x", "m", "A", "B", " ", "\n"}   \* /[A-Za-z0-9\s]/

RECURSIVE spacesToHyphen(_)
spacesToHyphen(s) ==
    IF s = <<>> THEN <<>>
    ELSE IF IsSpace(Head(s)) THEN <<"-">> \o spacesToHyphen(trimStart(s))
    ELSE <<Head(s)>> \o spacesToHyphen(Tail(s))

\* slugify(title, { lower: true, strict: true }) of the slugify package: the
\* replacement character reads as a space, strict drops all but letters,
\* digits and spaces, then trim, runs of spaces to "-", and lower case
docSlugify(title) ==
    LET spaced == [i \in 1..Len(title) |-> IF title[i] = "-" THEN " " ELSE title[i]]
    IN  toLowerCase(spacesToHyphen(trim(SelectSeq(spaced, IsAlnumOrSpace))))

\* slugify(...) || `post-${Date.now()}`
slugOf(title, now) ==
    IF docSlugify(title) # <<>> THEN docSlugify(title) ELSE <<"post-", now>>

requireAdmin(sent) == sent = "1"

\* req.path.startsWith('/api')
IsApiRoute(route) == route \in {"/api/admin/publish", "/api/admin/posts/:slug"}

\* the reply of requireAdmin when it stops the request
unauthorized(route, acceptsJson) ==
    IF IsApiRoute(route) \/ acceptsJson
    THEN "401 Unauthorized" ELSE "redirect /login"

\* fs.writeFileSync(filePath, ...): the file named by the slug is replaced
writeFile(files, slug, title, body) ==
    {f \in files : f.slug # slug} \cup {[slug |-> slug, title |-> title, body |-> body]}

removeAt(s, i) == SubSeq(s, 1, i - 1) \o SubSeq(s, i + 1, Len(s))

\* POST /login
DocLogin(c, email, password) ==
    /\ impl = "doc"
    /\ IF toLowerCase(email) = toLowerCase(ADMIN_EMAIL) /\ password = ADMIN_PASSWORD
       THEN /\ cookie' = [cookie EXCEPT ![c] = "1"]
            /\ last' = Resp("login", c, "json ok", <<>>, 0)
       ELSE /\ last' = Resp("login", c, "401 Invalid credentials", <<>>, 0)
            /\ UNCHANGED cookie
    /\ UNCHANGED <<impl, env, postFiles, postsCollection, commentsCollection>>
    /\ UNCHANGED sqlVars

\* POST /logout
DocLogout(c) ==
    /\ impl = "doc"
    /\ cookie' = [cookie EXCEPT ![c] = "none"]
    /\ last' = Resp("logout", c, "redirect /", <<>>, 0)
    /\ UNCHANGED <<impl, env, postFiles, postsCollection, commentsCollection>>
    /\ UNCHANGED sqlVars

\* POST /publish, POST /postarticle, POST /api/admin/publish.  sent is the
\* admin cookie the request carries: the server keeps no session, and the
\* cookie is neither signed nor tied to a login, so any request can carry it.
Publish(c, sent, route, acceptsJson, title, body, now) ==
    /\ impl = "doc"
    /\ LET slug == slugOf(title, now) IN
       IF ~requireAdmin(sent)
       THEN /\ last' = Resp("publish", c, unauthorized(route, acceptsJson), <<>>, 0)
            /\ UNCHANGED <<postFiles, postsCollection>>
       ELSE IF title = <<>> \/ body = <<>>
       THEN /\ last' = Resp("publish", c, "400 Title and body are required", <<>>, 0)
            /\ UNCHANGED <<postFiles, postsCollection>>
       ELSE /\ Len(postsCollection) < MaxDocPosts
            /\ postFiles' = writeFile(postFiles, slug, title, body)
            /\ postsCollection' = Append(postsCollection, [slug |-> slug, title |-> title])
            /\ last' = Resp("publish", c,
                            IF IsApiRoute(route) THEN "json ok" ELSE "redirect /p/:slug",
                            title, 0)
    /\ UNCHANGED <<impl, env, cookie, commentsCollection>>
    /\ UNCHANGED sqlVars

\* POST /api/posts/:slug/comments
DocAddComment(c, slug, name, text) ==
    /\ impl = "doc"
    /\ IF name = <<>> \/ text = <<>>
       THEN /\ last' = Resp("addComment", c, "400 Name and comment are required", slug, 0)
            /\ UNCHANGED commentsCollection
       ELSE /\ Len(commentsCollection) < MaxDocComments
            /\ commentsCollection' =
                  Append(commentsCollection, [slug |-> slug, name |-> name, text |-> text])
            /\ last' = Resp("addComment", c, "json ok", slug, 0)
    /\ UNCHANGED <<impl, env, cookie, postFiles, postsCollection>>
    /\ UNCHANGED sqlVars

\* POST /admin/delete
DocWipe(c, sent, acceptsJson) ==
    /\ impl = "doc"
    /\ IF ~requireAdmin(sent)
       THEN /\ last' = Resp("wipe", c, unauthorized("/admin/delete", acceptsJson), <<>>, 0)
            /\ UNCHANGED <<postFiles, postsCollection>>
       ELSE /\ postFiles' = {}
            /\ postsCollection' = <<>>
            /\ last' = Resp("wipe", c, "send Site content deleted", <<>>, 0)
    /\ UNCHANGED <<impl, env, cookie, commentsCollection>>
    /\ UNCHANGED sqlVars

\* POST /admin/posts/:slug/delete and DELETE /api/admin/posts/:slug
DocDeletePost(c, sent, route, acceptsJson, slug) ==
    /\ impl = "doc"
    /\ IF ~requireAdmin(sent)
       THEN /\ last' = Resp("deletePost", c, unauthorized(route, acceptsJson), <<>>, 0)
            /\ UNCHANGED <<postFiles, postsCollection, commentsCollection>>
       ELSE LET rows == {i \in 1..Len(postsCollection) : postsCollection[i].slug = slug} IN
            /\ postFiles' = {f \in postFiles : f.slug # slug}
            \* findOne returns one of the documents with the slug
            /\ \/ rows = {} /\ UNCHANGED postsCollection
               \/ \E i \in rows : postsCollection' = removeAt(postsCollection, i)
            /\ commentsCollection' = SelectSeq(commentsCollection, LAMBDA k : k.slug # slug)
            /\ last' = Resp("deletePost", c,
                            IF IsApiRoute(route) THEN "json ok" ELSE "redirect /admin/posts",
                            slug, 0)
    /\ UNCHANGED <<impl, env, cookie>>
    /\ UNCHANGED sqlVars

---------------------------------------------------------------------------
(* Specifications *)

NoEnv == [RESEND_API_KEY |-> FALSE, SMTP_HOST |-> FALSE,
          SMTP_USER |-> FALSE, SMTP_PASS |-> FALSE]

InitOf(i, e) ==
    /\ impl = i
    /\ env = e
    /\ session = [c \in Clients |-> 0]
    /\ seq = [posts |-> 0, comments |-> 0, subscribers |-> 0]
    /\ posts = {}
    /\ comments = {}
    /\ subscribers = <<>>
    /\ jobs = [j \in 1..MaxJobs |-> NoJob]
    /\ batchLog = NoBatchLog
    /\ cookie = [c \in Clients |-> "none"]
    /\ postFiles = {}
    /\ postsCollection = <<>>
    /\ commentsCollection = <<>>
    /\ last = Resp("none", Nobody, "none", <<>>, 0)

\* the sql program's subscription and mail side: one browser, and the
\* configurations in which the SMTP variables are all set or all missing
MailClients == {"c1"}
MailTitles == {<<>>, <<"a">>, <<"A", "!">>}
MailEnvs == {e \in Envs : e.SMTP_HOST = e.SMTP_USER /\ e.SMTP_USER = e.SMTP_PASS}

MailInit == \E e \in MailEnvs : InitOf("sql", e)

MailNext ==
    \/ \E c \in MailClients, e \in LoginEmails, p \in Passwords : Login(c, e, p)
    \/ \E c \in MailClients : Logout(c)
    \/ \E c \in MailClients, r \in RawEmails : Subscribe(c, r)
    \/ \E j \in 1..MaxJobs : WelcomeSettled(j)
    \/ \E c \in MailClients, id \in 1..MaxSubscriberId : DeleteSubscriber(c, id)
    \/ \E c \in MailClients, t \in MailTitles, b \in Contents, x \in BOOLEAN :
          CreatePost(c, t, b, <<>>, x)
    \/ \E j \in 1..MaxJobs : PostNotified(j)
    \/ \E c \in MailClients, t \in Texts, m \in Texts : Broadcast(c, t, m)
    \/ \E j \in 1..MaxJobs : BroadcastResume(j)
    \/ \E c \in MailClients, r \in {<<>>, <<" ", "a">>} : EmailTest(c, r)
    \/ \E j \in 1..MaxJobs : EmailTestResume(j)
    \/ \E j \in 1..MaxJobs, i \in 1..MaxSubscriberId, o \in ResendOutcomes :
          ProviderAnswers(j, i, o)

MailSpec == MailInit /\ [][MailNext]_vars

\* the requests that read or write the subscribers table, and their mail
SubscriberNext ==
    \/ \E c \in MailClients, e \in LoginEmails, p \in Passwords : Login(c, e, p)
    \/ \E c \in MailClients : Logout(c)
    \/ \E c \in MailClients, r \in RawEmails : Subscribe(c, r)
    \/ \E j \in 1..MaxJobs : WelcomeSettled(j)
    \/ \E c \in MailClients, id \in 1..MaxSubscriberId : DeleteSubscriber(c, id)
    \/ \E j \in 1..MaxJobs, i \in 1..MaxSubscriberId, o \in ResendOutcomes :
          ProviderAnswers(j, i, o)

SubscriberSpec == MailInit /\ [][SubscriberNext]_vars

\* the two requests that send mail without awaiting it, and their mail
NotifyNext ==
    \/ \E c \in MailClients, e \in LoginEmails, p \in Passwords : Login(c, e, p)
    \/ \E c \in MailClients : Logout(c)
    \/ \E c \in MailClients, r \in RawEmails : Subscribe(c, r)
    \/ \E j \in 1..MaxJobs : WelcomeSettled(j)
    \/ \E c \in MailClients, t \in MailTitles, b \in Contents, x \in BOOLEAN :
          CreatePost(c, t, b, <<>>, x)
    \/ \E j \in 1..MaxJobs : PostNotified(j)
    \/ \E j \in 1..MaxJobs, i \in 1..MaxSubscriberId, o \in ResendOutcomes :
          ProviderAnswers(j, i, o)

NotifySpec == MailInit /\ [][NotifyNext]_vars

\* either program, its posts, comments and administrator; nobody subscribes,
\* so no mail is sent and the configuration is the empty one
Init == \E i \in {"sql", "doc"} : InitOf(i, NoEnv)

SqlNext ==
    \/ \E c \in Clients, e \in LoginEmails, p \in Passwords : Login(c, e, p)
    \/ \E c \in Clients : Logout(c)
    \/ \E c \in Clients, t \in Titles, b \in Contents, f \in Uploads, x \in BOOLEAN :
          CreatePost(c, t, b, f, x)
    \/ \E j \in 1..MaxJobs : PostNotified(j)
    \/ \E c \in Clients, id \in 1..MaxPostId, t \in Titles, b \in Contents, f \in Uploads :
          UpdatePost(c, id, t, b, f)
    \/ \E c \in Clients, id \in 1..MaxPostId : DeletePost(c, id)
    \/ \E c \in Clients, g \in SlugInputs, a \in Authors, b \in Texts :
          AddComment(c, g, a, b)

DocNext ==
    \/ \E c \in DocClients, e \in DocLoginEmails, p \in DocPasswords : DocLogin(c, e, p)
    \/ \E c \in DocClients : DocLogout(c)
    \/ \E c \in DocClients, k \in CookieValues, r \in PublishRoutes, a \in BOOLEAN,
          t \in DocTitles, b \in DocBodies, n \in Timestamps :
          Publish(c, k, r, a, t, b, n)
    \/ \E c \in DocClients, g \in SlugInputs, n \in DocNames, t \in Texts :
          DocAddComment(c, g, n, t)
    \/ \E c \in DocClients, k \in CookieValues, a \in BOOLEAN : DocWipe(c, k, a)
    \/ \E c \in DocClients, k \in CookieValues, r \in DeleteRoutes, a \in BOOLEAN,
          g \in SlugInputs :
          DocDeletePost(c, k, r, a, g)

Next == SqlNext \/ DocNext

Spec == Init /\ [][Next]_vars

\* every sendMail call site but the post notification, under every configuration
SendInit == \E e \in Envs : InitOf("sql", e)

SendNext ==
    \/ \E c \in MailClients, e \in LoginEmails, p \in Passwords : Login(c, e, p)
    \/ \E c \in MailClients, r \in RawEmails : Subscribe(c, r)
    \/ \E j \in 1..MaxJobs : WelcomeSettled(j)
    \/ \E c \in MailClients, t \in Texts, m \in Texts : Broadcast(c, t, m)
    \/ \E j \in 1..MaxJobs : BroadcastResume(j)
    \/ \E c \in MailClients, r \in {<<>>, <<" ", "a">>} : EmailTest(c, r)
    \/ \E j \in 1..MaxJobs : EmailTestResume(j)
    \/ \E j \in 1..MaxJobs, i \in 1..MaxSubscriberId, o \in ResendOutcomes :
          ProviderAnswers(j, i, o)

SendSpec == SendInit /\ [][SendNext]_vars

\* The database file outlives the process: the program starts on a posts
\* table that an earlier POST /admin/posts has written, with the content that
\* handler stores for a body made of a few pieces of text.
MaxPieces == 4

Http == <<"h", "t", "t", "p", ":", "/", "/">>
DotPng == <<".", "p", "n", "g">>
DotJpgUpper == <<".", "J", "P", "G">>
RenderPieces == {Http, DotPng, DotJpgUpper, <<"h">>, <<"?">>, <<"&">>, <<"<">>,
                 <<" ">>, <<"\n">>}

RECURSIVE Flatten(_)
Flatten(ps) == IF ps = <<>> THEN <<>> ELSE Head(ps) \o Flatten(Tail(ps))

RenderBodies == {Flatten(ps) : ps \in UNION {[1..n -> RenderPieces] : n \in 1..MaxPieces}}

RenderInit ==
    \E b \in RenderBodies :
       /\ trim(b) # <<>>
       /\ impl = "sql"
       /\ env = NoEnv
       /\ session = [c \in Clients |-> 0]
       /\ seq = [posts |-> 1, comments |-> 0, subscribers |-> 0]
       /\ posts = {[id |-> 1, title |-> <<"a">>, slug |-> slugify(<<"a">>),
                    content |-> finalContent(trim(b), <<>>)]}
       /\ comments = {}
       /\ subscribers = <<>>
       /\ jobs = [j \in 1..MaxJobs |-> NoJob]
       /\ batchLog = NoBatchLog
       /\ cookie = [c \in Clients |-> "none"]
       /\ postFiles = {}
       /\ postsCollection = <<>>
       /\ commentsCollection = <<>>
       /\ last = Resp("none", Nobody, "none", <<>>, 0)

RenderNext == \E c \in MailClients, g \in {<<"a">>, <<"z">>} : ViewPost(c, g)

RenderSpec == RenderInit /\ [][RenderNext]_vars

---------------------------------------------------------------------------
(* Properties of the mail side *)

BatchKinds == {"post", "broadcast"}

CallsOf(j) == {jobs[j].calls[i] : i \in 1..Len(jobs[j].calls)}

AllCalls == UNION {CallsOf(j) : j \in 1..MaxJobs}

Failures(calls) == Cardinality({i \in 1..Len(calls) : calls[i].value = "false"})

\* C1: when a broadcast or new-post batch to N subscribers settles with M
\* failed sends, the counts that are logged are sent = N - M and failed = M.
C1_CountsMatchOutcomes ==
    [][\A j \in 1..MaxJobs :
          (jobs[j].kind \in BatchKinds /\ jobs'[j].kind = "none") =>
             /\ batchLog'.sent = Len(jobs[j].calls) - Failures(jobs[j].calls)
             /\ batchLog'.failed = Failures(jobs[j].calls)]_vars

\* C2: for both batch sends no handler holds its response back for a
\* recipient whose send is still pending.
C2_ResponseNeverWaits ==
    \A j \in 1..MaxJobs :
       (jobs[j].kind \in BatchKinds /\ ~allSettled(jobs[j].calls)) =>
          jobs[j].awaitedBy = Nobody

SmtpConfigured == env.SMTP_HOST /\ env.SMTP_USER /\ env.SMTP_PASS

Has(seqn, x) == \E i \in 1..Len(seqn) : seqn[i] = x

CallInOrder(s) ==
    LET pending == Len(s.outcomes) < Len(s.attempts)
        anyOk == Has(s.outcomes, "ok")
    IN
    \* the HTTPS provider is called, and called first, iff its key is set
    /\ Has(s.attempts, "resend") <=> env.RESEND_API_KEY
    /\ \A i \in 1..Len(s.attempts) : s.attempts[i] = "resend" => i = 1
    \* SMTP is called last, only when configured, and only when the HTTPS
    \* provider has no key or its call has failed
    /\ \A i \in 1..Len(s.attempts) : s.attempts[i] = "smtp" =>
          /\ i = Len(s.attempts)
          /\ SmtpConfigured
          /\ \/ ~env.RESEND_API_KEY /\ i = 1
             \/ i = 2 /\ Len(s.outcomes) >= 1 /\ s.outcomes[1] = "failed"
    \* a failed HTTPS call does fall back when SMTP is configured
    /\ (~pending /\ ~anyOk /\ SmtpConfigured) => Has(s.attempts, "smtp")
    \* the value: true iff a provider that was called succeeded
    /\ s.value = "pending" <=> pending
    /\ s.value = "true" <=> (~pending /\ anyOk)
    /\ s.value = "false" <=> (~pending /\ ~anyOk)
    /\ Len(s.outcomes) <= Len(s.attempts)

\* C3: every sendMail call tries the HTTPS provider first iff its key is
\* set, tries SMTP only after that and only when the HTTPS provider is
\* unconfigured or failed and host, user and password are all set, and
\* yields true exactly when a provider it tried succeeded.
C3_ProviderOrder == \A s \in AllCalls : CallInOrder(s)

\* a call whose HTTPS attempt failed and whose SMTP fallback succeeded
C3_Witness ==
    \E s \in AllCalls :
       s.attempts = <<"resend", "smtp">> /\ s.outcomes = <<"failed", "ok">> /\ s.value = "true"

\* the address a subscription is known by: trimmed, in lower case
Canonical(address) == toLowerCase(trim(address))

SubscribeRedirects == {"redirect /?subscribed=1", "redirect /?subscribed=0"}

StoredEmails == {subscribers[i].email : i \in 1..Len(subscribers)}

\* C4: whatever the e-mail sends do (succeed, fail, never settle), a valid
\* subscribe request leaves the subscriber stored and is answered by its
\* redirect, and a valid create-post request (authenticated, title and
\* content given, slug free, store reads succeeding) leaves the post stored
\* and is answered by the redirect to the admin page.  last.arg is the
\* e-mail or title of a request that passed validation.
C4_MailNeverBlocks ==
    /\ [](/\ (last.op = "subscribe" /\ last.arg # <<>>) =>
               /\ last.status \in SubscribeRedirects
               /\ Canonical(last.arg) \in StoredEmails
          /\ (last.op = "createPost" /\ last.status = "redirect /admin") =>
               \E p \in posts : p.id = last.id /\ p.title = trim(last.arg))
    /\ [][(/\ last'.op = "createPost"
           /\ last' # last
           /\ last'.arg # <<>>
           /\ ~last'.dbError
           /\ ~slugTaken(posts, slugify(trim(last'.arg)), 0))
          => /\ last'.status = "redirect /admin"
             /\ \E p \in posts' \ posts : p.title = trim(last'.arg)]_vars

\* the post is stored and answered while one notification has failed and
\* another is still pending
C4_Witness ==
    /\ last.op = "createPost"
    /\ last.status = "redirect /admin"
    /\ \E j \in 1..MaxJobs :
          /\ jobs[j].kind = "post"
          /\ \E s \in CallsOf(j) : s.value = "pending"
          /\ \E s \in CallsOf(j) : s.value = "false"

\* C5: the subscriber table holds at most one row per lowercased, trimmed
\* address, and after any subscribe request with an address (repeated, in
\* any letter case) exactly one row holds it and the answer is a redirect.
C5_SubscribeIdempotent ==
    /\ \A i, k \in 1..Len(subscribers) :
          Canonical(subscribers[i].email) = Canonical(subscribers[k].email)
             => i = k
    /\ (last.op = "subscribe" /\ last.arg # <<>>) =>
          /\ last.status \in SubscribeRedirects
          /\ Cardinality({i \in 1..Len(subscribers) :
                 Canonical(subscribers[i].email) = Canonical(last.arg)}) = 1

\* a repeated subscription in another letter case, answered "already"
C5_Witness ==
    /\ last.op = "subscribe"
    /\ last.arg = <<"A">>
    /\ last.status = "redirect /?subscribed=0"
    /\ <<"a">> \in StoredEmails

Started(s) == s.attempts # <<>> \/ s.value # "pending"

Tos(calls) == [i \in 1..Len(calls) |-> calls[i].to]

\* C10: a batch starts one send per subscriber read, all at once; a send
\* that has settled is never touched again and no step changes two sends;
\* the counts are produced only when every send has settled, and count as
\* many outcomes as subscribers were read.
C10_BatchJoin ==
    /\ [](\A j \in 1..MaxJobs : jobs[j].kind \in BatchKinds =>
             \A s \in CallsOf(j) : Started(s))
    /\ [][\A j \in 1..MaxJobs :
            /\ (jobs[j].kind = "none" /\ jobs'[j].kind \in BatchKinds) =>
                  Tos(jobs'[j].calls) = selectEmails(subscribers)
            /\ (jobs[j].kind \in BatchKinds /\ jobs'[j].kind # "none") =>
                  /\ jobs'[j].kind = jobs[j].kind
                  /\ Tos(jobs'[j].calls) = Tos(jobs[j].calls)
                  /\ \A i \in 1..Len(jobs[j].calls) :
                        jobs[j].calls[i].value # "pending" =>
                           jobs'[j].calls[i] = jobs[j].calls[i]
                  /\ Cardinality({i \in 1..Len(jobs[j].calls) :
                                     jobs'[j].calls[i] # jobs[j].calls[i]}) <= 1
            /\ (jobs[j].kind \in BatchKinds /\ jobs'[j].kind = "none") =>
                  /\ \A s \in CallsOf(j) : s.value # "pending"
                  /\ batchLog'.total = Len(jobs[j].calls)
                  /\ batchLog'.sent + batchLog'.failed = Len(jobs[j].calls)]_vars

\* in one batch the first send has failed and the second went through
C10_Witness ==
    \E j \in 1..MaxJobs :
       /\ jobs[j].kind \in BatchKinds
       /\ Len(jobs[j].calls) = 2
       /\ jobs[j].calls[1].value = "false"
       /\ jobs[j].calls[2].value = "true"

Times(seqn, x) == Cardinality({i \in 1..Len(seqn) : seqn[i] = x})

JobStarts == \E j \in 1..MaxJobs : jobs[j].kind = "none" /\ jobs'[j].kind # "none"

TablesChange ==
    \/ posts' # posts
    \/ comments' # comments
    \/ subscribers' # subscribers
    \/ seq' # seq

\* C11: the sends one request starts go to distinct recipients, one send per
\* recipient; a send calls the HTTPS provider at most once and the SMTP relay
\* at most once; a send that has failed is never changed or restarted, and
\* the step in which a send fails, or in which a job holding a failed send
\* ends, starts no send and writes nothing to the tables.
C11_NoRetries ==
    /\ [](\A j \in 1..MaxJobs :
             /\ \A i, k \in 1..Len(jobs[j].calls) :
                   jobs[j].calls[i].to = jobs[j].calls[k].to => i = k
             /\ \A s \in CallsOf(j) :
                   Times(s.attempts, "resend") <= 1 /\ Times(s.attempts, "smtp") <= 1)
    /\ [][\A j \in 1..MaxJobs :
            /\ \A i \in 1..Len(jobs[j].calls) :
                  jobs[j].calls[i].value = "false" =>
                     \/ jobs'[j] = NoJob
                     \/ jobs'[j].calls[i] = jobs[j].calls[i]
            /\ (\/ \E i \in 1..Len(jobs[j].calls) :
                      /\ jobs[j].calls[i].value = "pending"
                      /\ jobs'[j].kind # "none"
                      /\ jobs'[j].calls[i].value = "false"
                \/ /\ jobs'[j] = NoJob
                   /\ \E s \in CallsOf(j) : s.value = "false")
               => ~JobStarts /\ ~TablesChange]_vars

\* a broadcast to two subscribers in which a send has called each provider
\* once, both calls have failed and the send has resolved false
C11_Witness ==
    /\ \E s \in AllCalls :
          s.attempts = <<"resend", "smtp">> /\ s.outcomes = <<"failed", "failed">>
             /\ s.value = "false"
    /\ \E j \in 1..MaxJobs : jobs[j].kind = "broadcast" /\ Len(jobs[j].calls) = 2

---------------------------------------------------------------------------
(* Properties of posts, comments and the administrator *)

DocSlugs == {postsCollection[i].slug : i \in 1..Len(postsCollection)}
                \cup {f.slug : f \in postFiles}

StoresChange ==
    \/ posts' # posts
    \/ comments' # comments
    \/ subscribers' # subscribers
    \/ postFiles' # postFiles
    \/ postsCollection' # postsCollection
    \/ commentsCollection' # commentsCollection

\* the step is a handler writing the response last'
Answers(op) == last'.op = op /\ (last' # last \/ StoresChange)

\* C6: in both programs no two posts share a slug, and creating a post whose
\* title gives the slug of an existing post fails with the conflict answer,
\* leaves every stored post, title and body as they were and adds no record.
C6_SlugConflictRejected ==
    /\ [](/\ \A p, q \in posts : p.slug = q.slug => p = q
          /\ \A i, k \in 1..Len(postsCollection) :
                postsCollection[i].slug = postsCollection[k].slug => i = k)
    /\ [][/\ (Answers("createPost") /\ last'.arg # <<>>
              /\ slugTaken(posts, slugify(trim(last'.arg)), 0))
             => /\ last'.status = "render new: Title already used"
                /\ posts' = posts
          /\ (Answers("publish") /\ last'.arg # <<>>
              /\ \E n \in Timestamps : slugOf(last'.arg, n) \in DocSlugs)
             => /\ last'.status \notin {"json ok", "redirect /p/:slug"}
                /\ postFiles' = postFiles
                /\ postsCollection' = postsCollection]_vars

\* C7: once a single-post delete has been answered, no stored comment refers
\* to the deleted post, in the sql program (ON DELETE CASCADE on the
\* connection getDb opens) and in the document-store program.
C7_DeleteRemovesComments ==
    /\ (impl = "sql" /\ last.op = "deletePost" /\ last.status = "redirect /admin")
          => \A k \in comments : k.post_id # last.id
    /\ (impl = "doc" /\ last.op = "deletePost"
        /\ last.status \in {"json ok", "redirect /admin/posts"})
          => \A i \in 1..Len(commentsCollection) : commentsCollection[i].slug # last.arg

\* C8: in both programs a comment submitted for a slug that no post has is
\* answered not-found, and no comment is stored.
C8_CommentNeedsPost ==
    [][/\ (impl = "sql" /\ Answers("addComment")
           /\ ~\E p \in posts : p.slug = last'.arg)
          => last'.status = "404 Not found" /\ comments' = comments
       /\ (impl = "doc" /\ Answers("addComment") /\ last'.arg \notin DocSlugs)
          => /\ last'.status \notin {"json ok"}
             /\ commentsCollection' = commentsCollection]_vars

AdminOps == {"createPost", "updatePost", "deletePost", "deleteSubscriber",
             "broadcast", "emailTest", "publish", "wipe"}

\* a successful login with no logout since
Authenticated(c) == IF impl = "sql" THEN session[c] # 0 ELSE cookie[c] = "1"

\* C9: a step that answers an administrator request and changes a post, a
\* comment, a subscriber or a post file, or starts a mail job, is made by a
\* client that is authenticated; from any other client nothing changes.
C9_AdminGated ==
    [][(/\ last'.op \in AdminOps
        /\ StoresChange \/ \E j \in 1..MaxJobs : jobs[j].kind = "none" /\ jobs'[j].kind # "none")
       => Authenticated(last'.client)]_vars

Refused == {"redirect /login", "401 Unauthorized"}

\* C14: a delete request that passes the administrator gate and names an id
\* (sql program) or a slug (document-store program) that no post has changes
\* no post, comment, subscriber, post file or index record and is answered
\* as a delete that found its post: the redirect to the admin list, or ok.
C14_DeleteMissingIsNoOp ==
    [][(Answers("deletePost") /\ last'.status \notin Refused) =>
          /\ (impl = "sql" /\ ~\E p \in posts : p.id = last'.id)
                => ~StoresChange /\ last'.status = "redirect /admin"
          /\ (impl = "doc" /\ last'.arg \notin DocSlugs)
                => /\ ~StoresChange
                   /\ last'.status \in {"redirect /admin/posts", "json ok"}]_vars

\* C15: a post keeps the slug it was given when it was created: no step,
\* an edit that changes the title included, changes the slug of a stored post.
C15_SlugFixedAtCreation ==
    [][\A p \in posts, q \in posts' : p.id = q.id => q.slug = p.slug]_vars

IndexedSlugs == {postsCollection[i].slug : i \in 1..Len(postsCollection)}

FileSlugs == {f.slug : f \in postFiles}

\* C16: in the document-store program the slugs of the posts collection are
\* the slugs that have a .md file, and the collection holds one record per
\* slug, whatever was published, deleted or wiped.
C16_IndexMatchesFiles ==
    impl = "doc" =>
       /\ IndexedSlugs = FileSlugs
       /\ \A i, k \in 1..Len(postsCollection) :
             postsCollection[i].slug = postsCollection[k].slug => i = k

\* C17: the create-post handler answers 'Title already used' only when it
\* stored nothing: with that answer the posts table is as before and no
\* notification was started, and a request whose post row was inserted is
\* answered by the redirect to the admin page, also when the subscriber
\* lookup that follows the insert fails.
C17_ConflictMeansNothingStored ==
    [][Answers("createPost") =>
          /\ last'.status = "render new: Title already used"
                => posts' = posts /\ ~JobStarts
          /\ posts' # posts => last'.status = "redirect /admin"]_vars

\* the part of C18 about the wipe alone
C18_WipeClearsComments ==
    (impl = "doc" /\ last.op = "wipe" /\ last.status = "send Site content deleted")
       => commentsCollection = <<>>

\* C18: in the document-store program every stored comment carries the slug
\* of a post that exists, in every state, and once the full-site wipe has
\* been answered no comment is stored.
C18_CommentsHavePosts ==
    impl = "doc" =>
       /\ \A i \in 1..Len(commentsCollection) : commentsCollection[i].slug \in DocSlugs
       /\ (last.op = "wipe" /\ last.status = "send Site content deleted")
             => commentsCollection = <<>>

---------------------------------------------------------------------------
(* Properties of the rendered content *)

\* s cut at every c
RECURSIVE SplitAt(_, _, _)
SplitAt(s, c, piece) ==
    IF s = <<>> THEN <<piece>>
    ELSE IF Head(s) = c THEN <<piece>> \o SplitAt(Tail(s), c, <<>>)
    ELSE SplitAt(Tail(s), c, Append(piece, Head(s)))

\* the text an HTML parser reads from an attribute value or a text node
RECURSIVE Unescape(_)
Unescape(s) ==
    IF s = <<>> THEN <<>>
    ELSE IF matchesAt(s, 1, <<"&", "a", "m", "p", ";">>, FALSE)
    THEN <<"&">> \o Unescape(SubSeq(s, 6, Len(s)))
    ELSE IF matchesAt(s, 1, <<"&", "l", "t", ";">>, FALSE)
    THEN <<"<">> \o Unescape(SubSeq(s, 5, Len(s)))
    ELSE IF matchesAt(s, 1, <<"&", "g", "t", ";">>, FALSE)
    THEN <<">">> \o Unescape(SubSeq(s, 5, Len(s)))
    ELSE <<Head(s)>> \o Unescape(Tail(s))

Rendered == last.op = "viewPost" /\ last.status = "render post"

ContentLines == SplitAt(last.post.content, "\n", <<>>)

HtmlLines == SplitAt(last.contentHtml, "\n", <<>>)

\* t is one http(s) URL and nothing else
IsUrl(t) == schemeAt(t, 1, FALSE) > 0 /\ urlEndAt(t, 1) = Len(t)

EndsInImageExt(t) ==
    \E x \in ImageExts : matchesAt(t, Len(t) - Len(x), <<".">> \o x, TRUE)

\* ... that ends in an extension of the list, after a host
IsImageUrl(t) ==
    /\ IsUrl(t)
    /\ \E x \in ImageExts :
          /\ matchesAt(t, Len(t) - Len(x), <<".">> \o x, TRUE)
          /\ Len(t) - Len(x) > schemeAt(t, 1, FALSE) + 1

ImageLineRendered(i) ==
    LET t == trim(ContentLines[i]) IN
    IsImageUrl(t) =>
       /\ Len(HtmlLines[i]) >= 2
       /\ HtmlLines[i][1] = ImgOpen
       /\ HtmlLines[i][Len(HtmlLines[i])] = ImgClose
       /\ Unescape(SubSeq(HtmlLines[i], 2, Len(HtmlLines[i]) - 1)) = t

OtherUrlLineRendered(i) ==
    LET t == trim(ContentLines[i]) IN
    (IsUrl(t) /\ ~EndsInImageExt(t)) => HtmlLines[i][1] # ImgOpen

\* C12: a line that is only an image URL of the list (http or https, no
\* whitespace, ending in png, jpg, jpeg, gif or webp in any letter case) is
\* rendered as one image element around that URL and no paragraph; a line
\* that is only a URL with another ending is not rendered as an image alone.
C12_ImageLines ==
    Rendered =>
       /\ Len(HtmlLines) = Len(ContentLines)
       /\ \A i \in 1..Len(ContentLines) : ImageLineRendered(i) /\ OtherUrlLineRendered(i)

\* the part of C12 about image lines alone
C12_ImageLineAlone ==
    Rendered => \A i \in 1..Len(ContentLines) : ImageLineRendered(i)

\* the URLs of a line, left to right
RECURSIVE UrlsIn(_)
UrlsIn(s) ==
    IF s = <<>> THEN <<>>
    ELSE IF urlEndAt(s, 1) > 0
    THEN <<SubSeq(s, 1, urlEndAt(s, 1))>> \o UrlsIn(SubSeq(s, urlEndAt(s, 1) + 1, Len(s)))
    ELSE UrlsIn(Tail(s))

\* no extension of the list anywhere in the URL
PlainUrl(u) == ~\E k \in 1..Len(u), x \in ImageExts : matchesAt(u, k, <<".">> \o x, TRUE)

FirstAt(h, tok) ==
    IF Has(h, tok) THEN CHOOSE i \in 1..Len(h) : h[i] = tok /\ \A k \in 1..(i - 1) : h[k] # tok
    ELSE Len(h) + 1

\* the href values of the anchors of h that open in a new context without the
\* referrer, left to right
RECURSIVE HrefsOf(_)
HrefsOf(h) ==
    IF h = <<>> THEN <<>>
    ELSE IF Head(h) = AOpen
    THEN (IF Has(h, AMid) THEN <<Unescape(SubSeq(h, 2, FirstAt(h, AMid) - 1))>> ELSE <<>>)
            \o HrefsOf(SubSeq(h, FirstAt(h, AMid) + 1, Len(h)))
    ELSE HrefsOf(Tail(h))

\* C13: a line whose http(s) URLs are no image URLs is rendered with one
\* anchor per URL, in order, each with target="_blank" and
\* rel="noopener noreferrer" and an href that reads as that URL: escaped
\* once, also when the URL holds "&".
C13_AnchorPerUrl ==
    Rendered =>
       \A i \in 1..Len(ContentLines) :
          LET urls == UrlsIn(ContentLines[i]) IN
          (urls # <<>> /\ \A k \in 1..Len(urls) : PlainUrl(urls[k])) =>
             /\ i <= Len(HtmlLines)
             /\ HrefsOf(HtmlLines[i]) = urls
             /\ Times(HtmlLines[i], AOpen) = Len(urls)

====
